---- MODULE Spec2Model ----
(***************************************************************************)
(* A model of get_streaming_response (streaming-function.py): one call of  *)
(* the function, from argument binding to return, together with the two    *)
(* collaborators it talks to (the chat client and its fragment stream, and *)
(* the notebook display).  Text is a string; an attribute that may be None *)
(* is a sequence of length 0 (None) or 1 (the value).                      *)
(***************************************************************************)
EXTENDS Naturals, Sequences, FiniteSets, TLC

VARIABLES
    prompt,                 \* argument prompt
    system_prompt,          \* argument system_prompt
    modelArg,               \* what the caller passed for model (or Omitted)
    clientArg,              \* what the caller passed for client (or NoneVal)
    model,                  \* parameter model after default binding
    client,                 \* local client
    constructed,            \* number of OpenAI() constructions in this call
    messages,               \* local messages
    request,                \* the chat.completions.create call issued, if any
    handle,                 \* the streaming response handle: none/open/released
    chunk,                  \* loop variable chunk
    nfrag,                  \* number of fragments the stream has delivered
    deltas,                 \* text deltas of the delivered fragments, in order
    exhausted,              \* the stream has signalled end-of-stream
    accumulated_response,   \* local accumulated_response
    displayed,              \* arguments of the display(Markdown(..)) calls
    returned,               \* the value returned, if any
    err,                    \* the error that ended the call, if any
    pc                      \* position in the function body

vars == <<prompt, system_prompt, modelArg, clientArg, model, client,
          constructed, messages, request, handle, chunk, nfrag, deltas,
          exhausted, accumulated_response, displayed, returned, err, pc>>

\* ---------------------------------------------------------------- bounds
MaxChunks == 2
MaxChoices == 2

\* ------------------------------------------------------------ value sets
Omitted == "<omitted>"
NoneVal == "None"
SuppliedClient == "supplied"
DefaultClient == "OpenAI()"
DefaultModel == "gpt-4o-mini"

Texts == {"", "a", "b"}
Prompts == {"", "p"}
SystemPrompts == {"", "s"}
ModelArgs == {Omitted, "gpt-4"}
ClientArgs == {NoneVal, SuppliedClient}

\* delta.content: None or a string
Contents == {<<>>} \cup {<<t>> : t \in Texts}
\* choice.delta: None or an object with a content attribute
Deltas == {<<>>} \cup {<<[content |-> c]>> : c \in Contents}
Choices == [delta : Deltas]
ChoiceLists == UNION {[1..n -> Choices] : n \in 0..MaxChoices}
Chunks == [choices : ChoiceLists]

NoChunk == [choices |-> <<>>]

\* ------------------------------------------------------- pure operators
\* the default of the model parameter
BindModelNoDefault(m) == m

BindModel(m) == IF m = Omitted THEN DefaultModel ELSE m

\* `client is None`
ClientIsNoneAlways(c) == TRUE

ClientIsNone(c) == c = NoneVal

\* the messages array
BuildMessagesSwapped(p, sp) ==
    << [role |-> "user", content |-> p],
       [role |-> "system", content |-> sp] >>

BuildMessages(p, sp) ==
    << [role |-> "system", content |-> sp],
       [role |-> "user", content |-> p] >>

\* `if chunk.choices:`
HasChoices(c) == Len(c.choices) > 0

\* `chunk.choices[0]`
LastChoice(c) == c.choices[Len(c.choices)]

FirstChoice(c) == c.choices[1]

\* `.delta.content` raises AttributeError when delta is None
DeltaMissing(ch) == ch.delta = <<>>

\* `if content:` : None and "" are falsy
Truthy(content) == content # <<>> /\ content[1] # ""

\* `accumulated_response += content`
Prepend(acc, text) == text \o acc

AppendText(acc, text) == acc \o text

\* the text delta a fragment carries, "" when it carries none
DeltaOf(c) ==
    IF Len(c.choices) = 0 THEN ""
    ELSE IF c.choices[1].delta = <<>> THEN ""
    ELSE IF c.choices[1].delta[1].content = <<>> THEN ""
    ELSE c.choices[1].delta[1].content[1]

\* ------------------------------------------------------------------ Init
Init ==
    /\ prompt \in Prompts
    /\ system_prompt \in SystemPrompts
    /\ modelArg \in ModelArgs
    /\ clientArg \in ClientArgs
    /\ model = Omitted
    /\ client = NoneVal
    /\ constructed = 0
    /\ messages = <<>>
    /\ request = <<>>
    /\ handle = "none"
    /\ chunk = NoChunk
    /\ nfrag = 0
    /\ deltas = <<>>
    /\ exhausted = FALSE
    /\ accumulated_response = ""
    /\ displayed = <<>>
    /\ returned = <<>>
    /\ err = "none"
    /\ pc = "call"

\* --------------------------------------------------------------- actions
\* entry: parameters are bound, model takes its default when omitted
Call ==
    /\ pc = "call"
    /\ model' = BindModel(modelArg)
    /\ client' = clientArg
    /\ pc' = "init_client"
    /\ UNCHANGED <<prompt, system_prompt, modelArg, clientArg, constructed,
                   messages, request, handle, chunk, nfrag, deltas, exhausted,
                   accumulated_response, displayed, returned, err>>

\* if client is None: client = OpenAI()
InitClient ==
    /\ pc = "init_client"
    /\ IF ClientIsNone(client)
       THEN /\ constructed' = constructed + 1
            /\ client' = DefaultClient
       ELSE UNCHANGED <<constructed, client>>
    /\ pc' = "messages"
    /\ UNCHANGED <<prompt, system_prompt, modelArg, clientArg, model,
                   messages, request, handle, chunk, nfrag, deltas, exhausted,
                   accumulated_response, displayed, returned, err>>

\* OpenAI() raises (for instance no credentials)
InitClientRaise ==
    /\ pc = "init_client"
    /\ ClientIsNone(client)
    /\ constructed' = constructed + 1
    /\ err' = "construct"
    /\ pc' = "raised"
    /\ UNCHANGED <<prompt, system_prompt, modelArg, clientArg, model, client,
                   messages, request, handle, chunk, nfrag, deltas, exhausted,
                   accumulated_response, displayed, returned>>

\* messages = [...]
MakeMessages ==
    /\ pc = "messages"
    /\ messages' = BuildMessages(prompt, system_prompt)
    /\ pc' = "create"
    /\ UNCHANGED <<prompt, system_prompt, modelArg, clientArg, model, client,
                   constructed, request, handle, chunk, nfrag, deltas,
                   exhausted, accumulated_response, displayed, returned, err>>

\* response_stream = client.chat.completions.create(...);
\* accumulated_response = ""
Create ==
    /\ pc = "create"
    /\ request' = << [on |-> client, model |-> model,
                      messages |-> messages, stream |-> TRUE] >>
    /\ handle' = "open"
    /\ accumulated_response' = ""
    /\ pc' = "iter"
    /\ UNCHANGED <<prompt, system_prompt, modelArg, clientArg, model, client,
                   constructed, messages, chunk, nfrag, deltas, exhausted,
                   displayed, returned, err>>

\* the service rejects the request: create raises, no handle is acquired
CreateRaise ==
    /\ pc = "create"
    /\ request' = << [on |-> client, model |-> model,
                      messages |-> messages, stream |-> TRUE] >>
    /\ err' = "request"
    /\ pc' = "raised"
    /\ UNCHANGED <<prompt, system_prompt, modelArg, clientArg, model, client,
                   constructed, messages, handle, chunk, nfrag, deltas,
                   exhausted, accumulated_response, displayed, returned>>

\* for chunk in response_stream: the stream delivers one more fragment
StreamYield ==
    /\ pc = "iter"
    /\ nfrag < MaxChunks
    /\ \E c \in Chunks :
          /\ chunk' = c
          /\ deltas' = Append(deltas, DeltaOf(c))
    /\ nfrag' = nfrag + 1
    /\ pc' = "body"
    /\ UNCHANGED <<prompt, system_prompt, modelArg, clientArg, model, client,
                   constructed, messages, request, handle, exhausted,
                   accumulated_response, displayed, returned, err>>

\* for chunk in response_stream: end of stream.  The function itself never
\* closes the handle; whether the drained stream lets go of it is up to the
\* client library.
StreamStop ==
    /\ pc = "iter"
    /\ exhausted' = TRUE
    /\ handle' \in {"open", "released"}
    /\ pc' = "display"
    /\ UNCHANGED <<prompt, system_prompt, modelArg, clientArg, model, client,
                   constructed, messages, request, chunk, nfrag, deltas,
                   accumulated_response, displayed, returned, err>>

\* the loop is left when the stream raises
StreamRaiseSwallowed ==
    /\ pc = "iter"
    /\ err' = "stream"
    /\ handle' \in {"open", "released"}
    /\ pc' = "display"
    /\ UNCHANGED <<prompt, system_prompt, modelArg, clientArg, model, client,
                   constructed, messages, request, chunk, nfrag, deltas,
                   exhausted, accumulated_response, displayed, returned>>

\* for chunk in response_stream: the stream raises; nothing catches it
StreamRaise ==
    /\ pc = "iter"
    /\ err' = "stream"
    /\ handle' \in {"open", "released"}
    /\ pc' = "raised"
    /\ UNCHANGED <<prompt, system_prompt, modelArg, clientArg, model, client,
                   constructed, messages, request, chunk, nfrag, deltas,
                   exhausted, accumulated_response, displayed, returned>>

\* the loop body, lines 49-52
LoopBody ==
    /\ pc = "body"
    /\ IF ~HasChoices(chunk)
       THEN /\ pc' = "iter"
            /\ UNCHANGED <<accumulated_response, err>>
       ELSE IF DeltaMissing(FirstChoice(chunk))
       THEN \* None has no attribute content
            /\ err' = "AttributeError"
            /\ pc' = "raised"
            /\ UNCHANGED accumulated_response
       ELSE LET content == FirstChoice(chunk).delta[1].content IN
            /\ accumulated_response' =
                  IF Truthy(content)
                  THEN AppendText(accumulated_response, content[1])
                  ELSE accumulated_response
            /\ pc' = "iter"
            /\ UNCHANGED err
    /\ UNCHANGED <<prompt, system_prompt, modelArg, clientArg, model, client,
                   constructed, messages, request, handle, chunk, nfrag,
                   deltas, exhausted, displayed, returned>>

\* display only when there is something to show
DisplaySkipEmpty ==
    /\ pc = "display"
    /\ displayed' = IF accumulated_response = "" THEN displayed
                    ELSE Append(displayed, accumulated_response)
    /\ pc' = "return"
    /\ UNCHANGED <<prompt, system_prompt, modelArg, clientArg, model, client,
                   constructed, messages, request, handle, chunk, nfrag,
                   deltas, exhausted, accumulated_response, returned, err>>

\* display(Markdown(accumulated_response))
Display ==
    /\ pc = "display"
    /\ displayed' = Append(displayed, accumulated_response)
    /\ pc' = "return"
    /\ UNCHANGED <<prompt, system_prompt, modelArg, clientArg, model, client,
                   constructed, messages, request, handle, chunk, nfrag,
                   deltas, exhausted, accumulated_response, returned, err>>

\* a display failure that is caught and ignored
DisplayRaiseSwallowed ==
    /\ pc = "display"
    /\ displayed' = Append(displayed, accumulated_response)
    /\ err' = "display"
    /\ pc' = "return"
    /\ UNCHANGED <<prompt, system_prompt, modelArg, clientArg, model, client,
                   constructed, messages, request, handle, chunk, nfrag,
                   deltas, exhausted, accumulated_response, returned>>

\* display(Markdown(accumulated_response)) raises; nothing catches it
DisplayRaise ==
    /\ pc = "display"
    /\ displayed' = Append(displayed, accumulated_response)
    /\ err' = "display"
    /\ pc' = "raised"
    /\ UNCHANGED <<prompt, system_prompt, modelArg, clientArg, model, client,
                   constructed, messages, request, handle, chunk, nfrag,
                   deltas, exhausted, accumulated_response, returned>>

\* return accumulated_response
Return ==
    /\ pc = "return"
    /\ returned' = <<accumulated_response>>
    /\ pc' = "done"
    /\ UNCHANGED <<prompt, system_prompt, modelArg, clientArg, model, client,
                   constructed, messages, request, handle, chunk, nfrag,
                   deltas, exhausted, accumulated_response, displayed, err>>

Next ==
    \/ Call
    \/ InitClient
    \/ InitClientRaise
    \/ MakeMessages
    \/ Create
    \/ CreateRaise
    \/ StreamYield
    \/ StreamStop
    \/ StreamRaise
    \/ LoopBody
    \/ Display
    \/ DisplayRaise
    \/ Return

Spec == Init /\ [][Next]_vars

\* ------------------------------------------------------------ properties
RECURSIVE Concat(_)
Concat(ds) == IF ds = <<>> THEN "" ELSE Head(ds) \o Concat(Tail(ds))

NonEmptyOnly(ds) == SelectSeq(ds, LAMBDA d : d # "")

AtLoopHeadOrAfter == pc \in {"iter", "display", "return", "done"}

\* C1 (order preservation): whenever the loop is between fragments or has
\* ended, the accumulator is the concatenation, in arrival order, of the text
\* deltas of the fragments delivered so far; while the k-th fragment is being
\* processed it is the concatenation of the first k-1; and the value a call
\* returns is the concatenation of all deltas.
C1_OrderPreservation ==
    /\ AtLoopHeadOrAfter => accumulated_response = Concat(deltas)
    /\ pc = "body" =>
          accumulated_response = Concat(SubSeq(deltas, 1, nfrag - 1))
    /\ pc = "done" => returned = <<Concat(deltas)>>

C1_Witness ==
    /\ pc = "done"
    /\ deltas = <<"a", "b">>
    /\ returned = <<"ab">>

\* a fragment carrying no delta: no choices, a first choice with no delta,
\* or a delta whose text is absent or empty
CarriesNoDelta(c) ==
    \/ Len(c.choices) = 0
    \/ c.choices[1].delta = <<>>
    \/ c.choices[1].delta[1].content = <<>>
    \/ c.choices[1].delta[1].content[1] = ""

\* C2 (empty-fragment tolerance): a fragment that carries no delta never makes
\* the call raise, and the returned text is the concatenation of the non-empty
\* deltas only.
C2_EmptyFragmentTolerance ==
    /\ (nfrag > 0 /\ CarriesNoDelta(chunk)) => err # "AttributeError"
    /\ pc = "done" => returned = <<Concat(NonEmptyOnly(deltas))>>

\* C3 (failure propagation): once the stream has raised, the call has ended
\* with that error, nothing is returned and display has not been invoked.
C3_FailurePropagation ==
    err = "stream" =>
        /\ pc = "raised"
        /\ returned = <<>>
        /\ displayed = <<>>

C3_Witness ==
    /\ err = "stream"
    /\ nfrag = 2
    /\ accumulated_response = "ab"

\* C4 (single final rendering): display is never invoked while the stream is
\* still being consumed and never more than once; once the stream is exhausted
\* and the display statement has run, it was invoked exactly once with the
\* complete accumulated text (the empty string included), and that text is
\* what the call returns.
C4_SingleFinalRendering ==
    /\ Len(displayed) <= 1
    /\ displayed # <<>> => exhausted
    /\ pc \in {"iter", "body"} => displayed = <<>>
    /\ pc \in {"return", "done"} => displayed = <<Concat(deltas)>>
    /\ pc = "done" => returned = <<displayed[1]>>

C4_Witness ==
    /\ pc = "done"
    /\ nfrag = 2
    /\ displayed = <<"">>
    /\ returned = <<"">>

\* C5 (message shape): every request issued carries exactly two messages,
\* system first with the caller's system_prompt, user second with the caller's
\* prompt, contents unmodified, and streaming enabled.
C5_MessageShape ==
    request # <<>> =>
        /\ Len(request[1].messages) = 2
        /\ request[1].messages[1].role = "system"
        /\ request[1].messages[1].content = system_prompt
        /\ request[1].messages[2].role = "user"
        /\ request[1].messages[2].content = prompt
        /\ request[1].stream = TRUE

C5_Witness ==
    /\ request # <<>>
    /\ handle = "open"
    /\ prompt = ""
    /\ system_prompt = ""

\* C6 (client injection): with a supplied client nothing is constructed and
\* the request goes to the supplied handle; with none, at most one default
\* handle is constructed, and a request is issued only after exactly one
\* construction, on the constructed handle.
C6_ClientInjection ==
    /\ clientArg # NoneVal =>
          /\ constructed = 0
          /\ request # <<>> => request[1].on = clientArg
    /\ clientArg = NoneVal =>
          /\ constructed <= 1
          /\ request # <<>> =>
                /\ constructed = 1
                /\ request[1].on = DefaultClient

C6_Witness ==
    /\ clientArg = SuppliedClient
    /\ request # <<>>
    /\ pc = "done"

C8_ResourceRelease ==
    pc \in {"done", "raised"} => handle # "open"

\* C9 (rendering before return): a value is returned only after display was
\* invoked and did not fail; when display fails on the fully drained stream
\* the call ends with that error and returns nothing.
C9_RenderingBeforeReturn ==
    /\ returned # <<>> => (Len(displayed) = 1 /\ err = "none")
    /\ err = "display" =>
          /\ pc = "raised"
          /\ exhausted
          /\ returned = <<>>

C9_Witness ==
    /\ err = "display"
    /\ accumulated_response = "ab"
    /\ displayed = <<"ab">>

\* the text of a choice's delta, "" when the delta or its text is absent
TextOfChoice(ch) ==
    IF ch.delta = <<>> THEN ""
    ELSE IF ch.delta[1].content = <<>> THEN ""
    ELSE ch.delta[1].content[1]

\* C10 (first choice only): processing a fragment with more than one choice
\* appends the first choice's text and nothing else.
C10_FirstChoiceOnly ==
    [][(pc = "body" /\ Len(chunk.choices) > 1 /\ pc' = "iter") =>
          accumulated_response' =
              accumulated_response \o TextOfChoice(chunk.choices[1])]_vars

C10_Witness ==
    /\ pc = "iter"
    /\ nfrag = 1
    /\ Len(chunk.choices) = 2
    /\ chunk.choices[1].delta = <<[content |-> <<"a">>]>>
    /\ chunk.choices[2].delta = <<[content |-> <<"b">>]>>
    /\ accumulated_response = "a"

====
